---- MODULE Spec2Model ----
(***************************************************************************)
(* Model of the deploy / scale / undeploy commands of legion/cli.py and of *)
(* the wait-for-completion loop they share (wait_operation_finish).        *)
(*                                                                         *)
(* One behaviour is one invocation of one command.  The remote EDI service *)
(* is the environment: the mutation request either raises or returns a     *)
(* list of affected deployments, and every status query (client.inspect)   *)
(* either raises or returns a snapshot after some latency.  Time is the    *)
(* wall clock read by time.time(), in whole poll intervals; it advances    *)
(* only while the program blocks in a request or in time.sleep(1).         *)
(***************************************************************************)
EXTENDS Integers, Sequences, FiniteSets, TLC

\* ------------------------------------------------------------------ bounds
MaxTimeout == 3        \* largest --timeout given on the command line
MaxLatency == 1        \* longest time one request to the service takes
MaxScale == 1          \* largest --scale / ready_replicas
MaxAffected == 2       \* longest list of deployments a mutation returns
MaxSnap == 2           \* longest status listing the service returns
ScenarioDeadline == 5  \* largest --timeout of a scale command that never succeeds
MaxCalls == 4          \* longest sequence of sandbox calls in one work directory

\* time.sleep(1): the pause between two polls
PollInterval == 1

Models == {"a", "b"}
Versions == {"1", "2"}
\* the models the service of a running command holds (each in every version)
ServiceModels == {"a"}
Kinds == {"deploy", "scale", "undeploy"}
Timeouts == (0 - 1) .. MaxTimeout
Scales == 0 .. MaxScale

\* --------------------------------------------------------------- data model
\* ModelDeploymentDescription, as far as cli.py reads it
Descriptors ==
    [model : Models, version : Versions,
     ready_replicas : Scales, model_api_ok : BOOLEAN]

\* the deployments a mutation reports: only their identity and their number
\* are read by the wait
AffectedDeployments == [model : Models, version : Versions]

\* ModelDeploymentDescription.id_and_version: the composite key (id, version)
id_and_version(d) == <<d.model, d.version>>

SeqsUpTo(S, n) == UNION {[1 .. k -> S] : k \in 0 .. n}

\* every status listing client.inspect() may return
Snapshots == SeqsUpTo(Descriptors, MaxSnap)

\* every list of affected deployments
AffectedLists == SeqsUpTo(AffectedDeployments, MaxAffected)

\* every list of affected deployments the mutation request of a command may return
DispatchLists ==
    SeqsUpTo({a \in AffectedDeployments : a.model \in ServiceModels}, MaxAffected)

Identities(ds) == {id_and_version(ds[i]) : i \in DOMAIN ds}

\* no composite identity is listed twice
UniqueIdentities(ds) ==
    \A i, j \in DOMAIN ds : id_and_version(ds[i]) = id_and_version(ds[j]) => i = j

\* the listings of a service that keeps its contract (one entry per identity;
\* so none is longer than there are identities)
PollSnapshots ==
    LET served == {d \in Descriptors : d.model \in ServiceModels}
        identities == {id_and_version(d) : d \in served}
        longest == IF MaxSnap < Cardinality(identities)
                   THEN MaxSnap ELSE Cardinality(identities)
    IN  {s \in SeqsUpTo(served, longest) : UniqueIdentities(s)}

\* ----------------------------------------------------------- pure functions
\* mutant: the filter keyed on the model id alone, not on (id, version)
related_model_deployments_by_model(actual, affected_deployments) ==
    LET affected_models ==
            {affected_deployments[i].model : i \in DOMAIN affected_deployments}
    IN  SelectSeq(actual, LAMBDA deploy : deploy.model \in affected_models)

\* get_related_model_deployments, after client.inspect() has returned `actual`
related_model_deployments(actual, affected_deployments) ==
    LET affected_deployment_ids ==
            {id_and_version(affected_deployments[i]) : i \in DOMAIN affected_deployments}
    IN  SelectSeq(actual, LAMBDA deploy : id_and_version(deploy) \in affected_deployment_ids)

\* mutant: a deployment counts as scaled although its API does not respond
check_all_scaled_ignoring_api(deployments_status, expected_scale, expected_count) ==
    LET finally_deployed_models ==
            SelectSeq(deployments_status,
                      LAMBDA deployment : deployment.ready_replicas = expected_scale)
    IN  Len(finally_deployed_models) = expected_count

\* mutant: at least, instead of exactly, the expected number of deployments
check_all_scaled_at_least(deployments_status, expected_scale, expected_count) ==
    LET finally_deployed_models ==
            SelectSeq(deployments_status,
                      LAMBDA deployment :
                          /\ deployment.ready_replicas = expected_scale
                          /\ deployment.model_api_ok)
    IN  Len(finally_deployed_models) >= expected_count

check_all_scaled(deployments_status, expected_scale, expected_count) ==
    LET finally_deployed_models ==
            SelectSeq(deployments_status,
                      LAMBDA deployment :
                          /\ deployment.ready_replicas = expected_scale
                          /\ deployment.model_api_ok)
    IN  Len(finally_deployed_models) = expected_count

\* mutant: deploy and scale expect at least one scaled deployment
wait_callback_expects_one(k, affected_deployments_status, args_scale, deployments) ==
    IF k = "undeploy"
    THEN affected_deployments_status = <<>>
    ELSE check_all_scaled(affected_deployments_status, args_scale,
                          IF deployments = <<>> THEN 1 ELSE Len(deployments))

\* mutant: deploy and scale expect one scaled deployment per affected identity
wait_callback_counts_identities(k, affected_deployments_status, args_scale, deployments) ==
    IF k = "undeploy"
    THEN affected_deployments_status = <<>>
    ELSE check_all_scaled(affected_deployments_status, args_scale,
                          Cardinality(Identities(deployments)))

\* mutant: undeploy is confirmed as soon as one affected deployment is gone
wait_callback_some_gone(k, affected_deployments_status, args_scale, deployments) ==
    IF k = "undeploy"
    THEN Len(affected_deployments_status) < Len(deployments) \/ deployments = <<>>
    ELSE check_all_scaled(affected_deployments_status, args_scale, Len(deployments))

\* the completion predicate each command hands to wait_operation_finish
wait_callback(k, affected_deployments_status, args_scale, deployments) ==
    IF k = "undeploy"
    THEN affected_deployments_status = <<>>
    ELSE check_all_scaled(affected_deployments_status, args_scale, Len(deployments))

\* -------------------------------------------------------------------- state
VARIABLES
    pc,                \* where the command is: "start", "wait", "loop", "query",
                       \* "callback", "sleep", "done"
    outcome,           \* how the command ended ("running" until it has)
    kind,              \* which command runs
    no_wait,           \* args.no_wait
    timeout,           \* args.timeout
    scale,             \* args.scale (0 for undeploy, which has none)
    model_deployments, \* the list the mutation request returned
    now,               \* time.time()
    start,             \* wait_operation_finish: start
    elapsed,           \* wait_operation_finish: elapsed
    affected_deployments_status, \* wait_operation_finish: the filtered listing
    result,            \* wait_operation_finish: result of the last callback
    nMutations,        \* mutation requests sent so far
    nQueries,          \* client.inspect() calls made so far
    nEvals,            \* wait_callback calls made so far
    nSleeps,           \* time.sleep(1) calls made so far
    latency,           \* how long the status query of the last iteration took
                       \* (0 while an iteration has not queried yet)
    observed,          \* what the last full listing showed about the affected
    f_pc, f_args, f_ret, \* a single call of a pure function: inputs and result
    activate_file,     \* sandbox: the file legion-activate.sh of the work directory
    stdout,            \* sandbox: what the last call printed
    nCalls,            \* sandbox calls made so far
    nWrites,           \* sandbox calls so far that wrote the file
    all_unforced,      \* no sandbox call so far had force_recreate
    pc2,               \* a second run of the same wait: where it is
    outcome2,          \* second run: how it ended
    affected_deployments_status2, \* second run: its filtered listing
    result2,           \* second run: result of its last callback
    nQueries2,         \* second run: client.inspect() calls made so far
    shown1,            \* what the first run's listing showed about the affected
                       \* deployments, until the second run has queried too
    differed           \* the two runs were given different listings at this poll

vars == <<pc, outcome, kind, no_wait, timeout, scale, model_deployments, now, start,
          elapsed, affected_deployments_status, result, nMutations, nQueries, nEvals,
          nSleeps, latency, observed, f_pc, f_args, f_ret,
          activate_file, stdout, nCalls, nWrites, all_unforced,
          pc2, outcome2, affected_deployments_status2, result2, nQueries2, shown1,
          differed>>

args == <<kind, no_wait, timeout, scale>>
counters == <<nMutations, nQueries, nEvals, nSleeps>>
fvars == <<f_pc, f_args, f_ret>>
sbvars == <<activate_file, stdout, nCalls, nWrites, all_unforced>>
pairvars == <<pc2, outcome2, affected_deployments_status2, result2, nQueries2, shown1,
              differed>>
locals == <<start, elapsed, affected_deployments_status, result, latency, observed>>

\* what a full status listing shows about the affected deployments
\* (taken from the listing itself, before any filtering)
AllAffectedReady(actual, affected, n) ==
    \A i \in DOMAIN affected :
        \E j \in DOMAIN actual :
            /\ id_and_version(actual[j]) = id_and_version(affected[i])
            /\ actual[j].ready_replicas = n
            /\ actual[j].model_api_ok

NoneAffectedListed(actual, affected) ==
    \A j \in DOMAIN actual :
        \A i \in DOMAIN affected :
            id_and_version(actual[j]) # id_and_version(affected[i])

Observe(actual) ==
    [all_ready |-> AllAffectedReady(actual, model_deployments, scale),
     none_listed |-> NoneAffectedListed(actual, model_deployments)]

NoObservation == [all_ready |-> FALSE, none_listed |-> FALSE]

\* no file legion-activate.sh in the work directory
NoFile == [exists |-> FALSE, content |-> "none", mode |-> 0]

\* no sandbox call is made
SandboxUntouched ==
    /\ activate_file = NoFile
    /\ stdout = <<>>
    /\ nCalls = 0 /\ nWrites = 0
    /\ all_unforced = TRUE

\* no second run is made
NoSecondRun ==
    /\ pc2 = "off"
    /\ outcome2 = "running"
    /\ affected_deployments_status2 = <<>>
    /\ result2 = FALSE
    /\ nQueries2 = 0
    /\ shown1 = [listing |-> <<>>, others |-> FALSE]
    /\ differed = FALSE

\* a command about to run, with its parsed arguments
InitWith(kinds, no_waits, timeouts) ==
    /\ pc = "start"
    /\ outcome = "running"
    /\ kind \in kinds
    /\ no_wait \in no_waits
    /\ timeout \in timeouts
    /\ scale \in (IF kind = "undeploy" THEN {0} ELSE Scales)
    /\ model_deployments = <<>>
    /\ now = 0
    /\ start = 0
    /\ elapsed = 0
    /\ affected_deployments_status = <<>>
    /\ result = FALSE
    /\ nMutations = 0 /\ nQueries = 0 /\ nEvals = 0 /\ nSleeps = 0
    /\ latency = 0
    /\ observed = NoObservation
    /\ f_pc = "off" /\ f_args = <<>> /\ f_ret = <<>>
    /\ SandboxUntouched
    /\ NoSecondRun

Init == InitWith(Kinds, BOOLEAN, Timeouts)

\* mutant: a raised exception is swallowed and the command reports success
Raise_as_success(what) ==
    /\ pc' = "done"
    /\ outcome' = "Confirmed"

\* an exception leaves the command
Raise(what) ==
    /\ pc' = "done"
    /\ outcome' = what

\* mutant: a failed mutation request is recorded but the command goes on to wait
Dispatch_swallow(k) ==
    /\ pc = "start"
    /\ kind = k
    /\ nMutations' = nMutations + 1
    /\ \/ /\ outcome' = "DispatchFailed"
          /\ pc' = "wait"
          /\ UNCHANGED model_deployments
       \/ /\ \E deployments \in DispatchLists : model_deployments' = deployments
          /\ pc' = "wait"
          /\ UNCHANGED outcome
    /\ UNCHANGED <<args, now, locals, nQueries, nEvals, nSleeps, fvars, sbvars, pairvars>>

\* mutant: a rejected mutation request is sent a second time before giving up
Dispatch_retry(k) ==
    /\ pc = "start"
    /\ kind = k
    /\ \/ /\ Raise("DispatchFailed")
          /\ nMutations' = nMutations + 2
          /\ UNCHANGED model_deployments
       \/ /\ \E deployments \in DispatchLists : model_deployments' = deployments
          /\ nMutations' = nMutations + 1
          /\ pc' = "wait"
          /\ UNCHANGED outcome
    /\ UNCHANGED <<args, now, locals, nQueries, nEvals, nSleeps, fvars, sbvars, pairvars>>

\* edi_client.deploy / .scale / .undeploy: one request, which either raises or
\* returns the affected deployments (the clock is read from its return on)
Dispatch(k) ==
    /\ pc = "start"
    /\ kind = k
    /\ nMutations' = nMutations + 1
    /\ \/ /\ Raise("DispatchFailed")
          /\ UNCHANGED model_deployments
       \/ /\ \E deployments \in DispatchLists : model_deployments' = deployments
          /\ pc' = "wait"
          /\ UNCHANGED outcome
    /\ UNCHANGED <<args, now, locals, nQueries, nEvals, nSleeps, fvars, sbvars, pairvars>>

undeploy_kubernetes == Dispatch("undeploy")
scale_kubernetes == Dispatch("scale")
deploy_kubernetes == Dispatch("deploy")

\* mutant: only a negative timeout is refused
WaitEnter_negative_only ==
    /\ pc = "wait"
    /\ IF no_wait
       THEN /\ pc' = "done"
            /\ outcome' = "NotWaited"
            /\ UNCHANGED start
       ELSE /\ start' = now
            /\ IF timeout < 0
               THEN Raise("InvalidTimeout")
               ELSE pc' = "loop" /\ UNCHANGED outcome
    /\ UNCHANGED <<args, model_deployments, now, elapsed, affected_deployments_status,
                   result, counters, latency, observed, fvars, sbvars, pairvars>>

\* mutant: args.no_wait is not tested, the wait always runs
WaitEnter_ignores_no_wait ==
    /\ pc = "wait"
    /\ start' = now
    /\ IF timeout <= 0
       THEN Raise("InvalidTimeout")
       ELSE pc' = "loop" /\ UNCHANGED outcome
    /\ UNCHANGED <<args, model_deployments, now, elapsed, affected_deployments_status,
                   result, counters, latency, observed, fvars, sbvars, pairvars>>

\* mutant: the timeout is validated before no_wait is looked at
WaitEnter_validates_first ==
    /\ pc = "wait"
    /\ IF timeout <= 0
       THEN Raise("InvalidTimeout") /\ UNCHANGED start
       ELSE IF no_wait
            THEN /\ pc' = "done"
                 /\ outcome' = "NotWaited"
                 /\ UNCHANGED start
            ELSE /\ start' = now
                 /\ pc' = "loop"
                 /\ UNCHANGED outcome
    /\ UNCHANGED <<args, model_deployments, now, elapsed, affected_deployments_status,
                   result, counters, latency, observed, fvars, sbvars, pairvars>>

\* wait_operation_finish, up to the loop
WaitEnter ==
    /\ pc = "wait"
    /\ IF no_wait
       THEN /\ pc' = "done"
            /\ outcome' = "NotWaited"
            /\ UNCHANGED start
       ELSE /\ start' = now
            /\ IF timeout <= 0
               THEN Raise("InvalidTimeout")
               ELSE pc' = "loop" /\ UNCHANGED outcome
    /\ UNCHANGED <<args, model_deployments, now, elapsed, affected_deployments_status,
                   result, counters, latency, observed, fvars, sbvars, pairvars>>

\* mutant: the deadline test gives up one poll interval late
DeadlineExceeded_late(e, t) == e > t + PollInterval

\* mutant: the deadline test is not strict
DeadlineExceeded_nonstrict(e, t) == e >= t

\* the deadline test at the top of an iteration
DeadlineExceeded(e, t) == e > t

CheckDeadline ==
    /\ pc = "loop"
    /\ elapsed' = now - start
    /\ IF DeadlineExceeded(elapsed', timeout)
       THEN Raise("TimedOut") /\ UNCHANGED latency
       ELSE pc' = "query" /\ latency' = 0 /\ UNCHANGED outcome
    /\ UNCHANGED <<args, model_deployments, now, start, affected_deployments_status,
                   result, counters, observed, fvars, sbvars, pairvars>>

\* mutant: a failed status query is taken as a skipped poll
QueryStatus_tolerates ==
    /\ pc = "query"
    /\ nQueries' = nQueries + 1
    /\ \E lat \in 0 .. MaxLatency :
          /\ now' = now + lat
          /\ latency' = lat
    /\ \/ /\ pc' = "sleep"
          /\ UNCHANGED <<outcome, affected_deployments_status, observed>>
       \/ /\ \E actual_deployments_status \in PollSnapshots :
                /\ affected_deployments_status' =
                       related_model_deployments(actual_deployments_status, model_deployments)
                /\ observed' = Observe(actual_deployments_status)
          /\ pc' = "callback"
          /\ UNCHANGED outcome
    /\ UNCHANGED <<args, model_deployments, start, elapsed, result,
                   nMutations, nEvals, nSleeps, fvars, sbvars, pairvars>>

\* mutant: the listing of a poll replaces the list the mutation request returned
QueryStatus_adopts_listing ==
    /\ pc = "query"
    /\ nQueries' = nQueries + 1
    /\ \E lat \in 0 .. MaxLatency :
          /\ now' = now + lat
          /\ latency' = lat
    /\ \/ /\ Raise("QueryFailed")
          /\ UNCHANGED <<affected_deployments_status, observed, model_deployments>>
       \/ /\ \E actual_deployments_status \in PollSnapshots :
                /\ affected_deployments_status' =
                       related_model_deployments(actual_deployments_status, model_deployments)
                /\ observed' = Observe(actual_deployments_status)
                /\ model_deployments' = affected_deployments_status'
          /\ pc' = "callback"
          /\ UNCHANGED outcome
    /\ UNCHANGED <<args, start, elapsed, result,
                   nMutations, nEvals, nSleeps, fvars, sbvars, pairvars>>

\* get_related_model_deployments: one client.inspect(), then the filter
QueryStatus ==
    /\ pc = "query"
    /\ nQueries' = nQueries + 1
    /\ \E lat \in 0 .. MaxLatency :
          /\ now' = now + lat
          /\ latency' = lat
    /\ \/ /\ Raise("QueryFailed")
          /\ UNCHANGED <<affected_deployments_status, observed>>
       \/ /\ \E actual_deployments_status \in PollSnapshots :
                /\ affected_deployments_status' =
                       related_model_deployments(actual_deployments_status, model_deployments)
                /\ observed' = Observe(actual_deployments_status)
          /\ pc' = "callback"
          /\ UNCHANGED outcome
    /\ UNCHANGED <<args, model_deployments, start, elapsed, result,
                   nMutations, nEvals, nSleeps, fvars, sbvars, pairvars>>

\* mutant: a confirming callback tests the deadline again before it breaks
Callback_rechecks_deadline ==
    /\ pc = "callback"
    /\ nEvals' = nEvals + 1
    /\ result' = wait_callback(kind, affected_deployments_status, scale, model_deployments)
    /\ IF result'
       THEN IF now - start > timeout
            THEN Raise("TimedOut")
            ELSE pc' = "done" /\ outcome' = "Confirmed"
       ELSE pc' = "sleep" /\ UNCHANGED outcome
    /\ UNCHANGED <<args, model_deployments, now, start, elapsed, affected_deployments_status,
                   nMutations, nQueries, nSleeps, latency, observed, fvars, sbvars, pairvars>>

\* mutant: a confirming callback does not leave the loop
Callback_no_break ==
    /\ pc = "callback"
    /\ nEvals' = nEvals + 1
    /\ result' = wait_callback(kind, affected_deployments_status, scale, model_deployments)
    /\ pc' = "sleep"
    /\ UNCHANGED <<outcome, args, model_deployments, now, start, elapsed,
                   affected_deployments_status, nMutations, nQueries, nSleeps, latency,
                   observed, fvars, sbvars, pairvars>>

\* result = wait_callback(...); if result: break
Callback ==
    /\ pc = "callback"
    /\ nEvals' = nEvals + 1
    /\ result' = wait_callback(kind, affected_deployments_status, scale, model_deployments)
    /\ IF result'
       THEN pc' = "done" /\ outcome' = "Confirmed"
       ELSE pc' = "sleep" /\ UNCHANGED outcome
    /\ UNCHANGED <<args, model_deployments, now, start, elapsed, affected_deployments_status,
                   nMutations, nQueries, nSleeps, latency, observed, fvars, sbvars, pairvars>>

\* mutant: after the sleep the callback runs again without a new status query
Sleep_skips_query ==
    /\ pc = "sleep"
    /\ nSleeps' = nSleeps + 1
    /\ now' = now + PollInterval
    /\ pc' = "callback"
    /\ UNCHANGED <<outcome, args, model_deployments, start, elapsed,
                   affected_deployments_status, observed,
                   result, nMutations, nQueries, nEvals, latency, fvars, sbvars, pairvars>>

\* mutant: the first sleep of a wait returns at once
Sleep_first_returns_at_once ==
    /\ pc = "sleep"
    /\ nSleeps' = nSleeps + 1
    /\ now' = (IF nSleeps = 0 THEN now ELSE now + PollInterval)
    /\ pc' = "loop"
    /\ affected_deployments_status' = <<>>
    /\ observed' = NoObservation
    /\ UNCHANGED <<outcome, args, model_deployments, start, elapsed,
                   result, nMutations, nQueries, nEvals, latency, fvars, sbvars, pairvars>>

\* time.sleep(1).  The listing of the iteration that ends here is not read
\* again (the next iteration overwrites it before its callback), so the model
\* drops it with the observation made on it.
Sleep ==
    /\ pc = "sleep"
    /\ nSleeps' = nSleeps + 1
    /\ now' = now + PollInterval
    /\ pc' = "loop"
    /\ affected_deployments_status' = <<>>
    /\ observed' = NoObservation
    /\ UNCHANGED <<outcome, args, model_deployments, start, elapsed,
                   result, nMutations, nQueries, nEvals, latency, fvars, sbvars, pairvars>>

Next ==
    \/ undeploy_kubernetes
    \/ scale_kubernetes
    \/ deploy_kubernetes
    \/ WaitEnter
    \/ CheckDeadline
    \/ QueryStatus
    \/ Callback
    \/ Sleep

Spec == Init /\ [][Next]_vars

\* the same commands run by an interpreter that never stops by itself: every
\* request returns or raises, every sleep returns
SpecFair == Init /\ [][Next]_vars /\ WF_vars(Next)

\* mutant: an interrupt is taken only between two iterations
Interrupt_at_boundary ==
    /\ pc = "loop"
    /\ Raise("Interrupted")
    /\ UNCHANGED <<args, model_deployments, now, locals, counters, fvars, sbvars, pairvars>>

\* An operator interrupt during the wait.  The loop neither installs a handler
\* nor tests a flag and has no try/except, so the interpreter raises the
\* interrupt as an exception at whatever statement it is at (the deadline test,
\* the status query, the callback or the sleep) and it leaves the command.
Interrupt ==
    /\ pc \in {"loop", "query", "callback", "sleep"}
    /\ Raise("Interrupted")
    /\ UNCHANGED <<args, model_deployments, now, locals, counters, fvars, sbvars, pairvars>>

NextInterrupt ==
    \/ Next
    \/ Interrupt

\* the commands, run by an operator who may interrupt the wait
SpecInterrupt == Init /\ [][NextInterrupt]_vars

\* a scale command that waits, with deadlines up to ScenarioDeadline
InitScale == InitWith({"scale"}, {FALSE}, 1 .. ScenarioDeadline)

NextScale ==
    \/ scale_kubernetes
    \/ WaitEnter
    \/ CheckDeadline
    \/ QueryStatus
    \/ Callback
    \/ Sleep

SpecScale == InitScale /\ [][NextScale]_vars

\* ------------------------------------------- single calls of pure functions
\* the command itself is not running
Idle ==
    /\ pc = "off"
    /\ outcome = "running"
    /\ kind = "deploy" /\ no_wait = FALSE /\ timeout = 1 /\ scale = 0
    /\ model_deployments = <<>>
    /\ now = 0 /\ start = 0 /\ elapsed = 0
    /\ affected_deployments_status = <<>>
    /\ result = FALSE
    /\ nMutations = 0 /\ nQueries = 0 /\ nEvals = 0 /\ nSleeps = 0
    /\ latency = 0
    /\ observed = NoObservation

mainvars == <<pc, outcome, args, model_deployments, now, locals, counters>>

\* get_related_model_deployments on any listing and any affected list
InitFilter ==
    /\ Idle
    /\ SandboxUntouched
    /\ NoSecondRun
    /\ f_pc = "call"
    /\ f_args \in [actual : Snapshots, affected : AffectedLists]
    /\ f_ret = <<>>

CallRelated ==
    /\ f_pc = "call"
    /\ f_ret' = related_model_deployments(f_args.actual, f_args.affected)
    /\ f_pc' = "returned"
    /\ UNCHANGED <<mainvars, f_args, sbvars, pairvars>>

SpecFilter == InitFilter /\ [][CallRelated]_vars

\* check_all_scaled on any listing, any expected scale and any expected count
InitScaled ==
    /\ Idle
    /\ SandboxUntouched
    /\ NoSecondRun
    /\ f_pc = "call"
    /\ f_args \in [deployments_status : Snapshots,
                   expected_scale : Scales,
                   expected_count : 0 .. MaxSnap + 1]
    /\ f_ret = FALSE

CallScaled ==
    /\ f_pc = "call"
    /\ f_ret' = check_all_scaled(f_args.deployments_status, f_args.expected_scale,
                                 f_args.expected_count)
    /\ f_pc' = "returned"
    /\ UNCHANGED <<mainvars, f_args, sbvars, pairvars>>

SpecScaled == InitScaled /\ [][CallScaled]_vars

\* ------------------------------------------------------------------ sandbox
\* stat.S_IEXEC, the owner's execute bit
S_IEXEC == 64

\* mode of a file that open(..., 'w') creates (0o644)
NewFileMode == 420

\* modes of a file found in the work directory (0o600, 0o644, 0o755)
FoundModes == {384, 420, 493}

Images == {"legion/base-python-image:latest", "custom"}

\* st_mode | stat.S_IEXEC
RECURSIVE BitOr(_, _)
BitOr(a, b) ==
    IF a = 0 THEN b
    ELSE IF b = 0 THEN a
    ELSE (IF a % 2 = 1 \/ b % 2 = 1 THEN 1 ELSE 0) + 2 * BitOr(a \div 2, b \div 2)

\* legion.utils.render_template('sandbox-cli.sh.tmpl', arguments): of the
\* arguments only the image varies between calls
render_template(image) == <<"sandbox-cli.sh.tmpl", image>>

AlreadyExisted == "File legion-activate.sh already existed, ignoring creation of sandbox"
Created == "Sandbox has been created!"
ToActivate == "To activate run legion-activate.sh from command line"

\* a work directory without the file, or with one that something else put there
FoundFiles ==
    {NoFile} \cup [exists : {TRUE}, content : {<<"foreign">>}, mode : FoundModes]

\* mutant: the file is written whether or not it is there
sandbox_ignores_existing(image, force_recreate) ==
    /\ pc = "off"
    /\ nCalls < MaxCalls
    /\ nCalls' = nCalls + 1
    /\ all_unforced' = (all_unforced /\ ~force_recreate)
    /\ f_args' = [image |-> image, force_recreate |-> force_recreate]
    /\ activate_file' =
           [exists |-> TRUE,
            content |-> render_template(image),
            mode |-> BitOr(IF activate_file.exists THEN activate_file.mode
                           ELSE NewFileMode, S_IEXEC)]
    /\ nWrites' = nWrites + 1
    /\ stdout' = <<Created, ToActivate>>
    /\ UNCHANGED <<mainvars, f_pc, f_ret, pairvars>>

\* sandbox(args) with args.image and args.force_recreate
sandbox(image, force_recreate) ==
    /\ pc = "off"
    /\ nCalls < MaxCalls
    /\ nCalls' = nCalls + 1
    /\ all_unforced' = (all_unforced /\ ~force_recreate)
    /\ f_args' = [image |-> image, force_recreate |-> force_recreate]
    /\ IF activate_file.exists /\ ~force_recreate
       THEN /\ stdout' = <<AlreadyExisted>>
            /\ UNCHANGED <<activate_file, nWrites>>
       ELSE /\ activate_file' =
                   [exists |-> TRUE,
                    content |-> render_template(image),
                    mode |-> BitOr(IF activate_file.exists THEN activate_file.mode
                                   ELSE NewFileMode, S_IEXEC)]
            /\ nWrites' = nWrites + 1
            /\ stdout' = <<Created, ToActivate>>
    /\ UNCHANGED <<mainvars, f_pc, f_ret, pairvars>>

InitSandbox ==
    /\ Idle
    /\ f_pc = "off" /\ f_args = <<>> /\ f_ret = <<>>
    /\ activate_file \in FoundFiles
    /\ stdout = <<>>
    /\ nCalls = 0 /\ nWrites = 0
    /\ all_unforced = TRUE
    /\ NoSecondRun

NextSandbox ==
    \E image \in Images, force_recreate \in BOOLEAN : sandbox(image, force_recreate)

\* any sequence of up to MaxCalls sandbox calls in one work directory
SpecSandbox == InitSandbox /\ [][NextSandbox]_vars

\* ------------------------------------------------- two runs of the same wait
\* how often descriptor d is listed
Count(listing, d) == Len(SelectSeq(listing, LAMBDA x : x = d))

\* what a listing shows about the affected deployments: its descriptors that
\* have the composite identity of some affected deployment
AffectedPart(listing, affected) ==
    SelectSeq(listing,
              LAMBDA d : \E i \in DOMAIN affected :
                             d.model = affected[i].model /\ d.version = affected[i].version)

\* two listings agree on the affected deployments when their affected parts
\* list every descriptor equally often (what they list besides, and in which
\* order, is free)
SameBag(part1, part2) ==
    /\ Len(part1) = Len(part2)
    /\ \A i \in DOMAIN part1 : Count(part1, part1[i]) = Count(part2, part1[i])

\* nothing shown to the first run is waiting to be shown to the second
NothingShown == [listing |-> <<>>, others |-> FALSE]

\* what a listing shows about the affected deployments, and whether it lists
\* others too
Shown(actual, affected) ==
    [listing |-> AffectedPart(actual, affected),
     others |-> Len(AffectedPart(actual, affected)) < Len(actual)]

\* Two runs of the same command, both entering the loop of
\* wait_operation_finish after the same mutation result, with the same
\* arguments and on the same clock.
InitPair ==
    /\ pc = "loop" /\ pc2 = "loop"
    /\ outcome = "running" /\ outcome2 = "running"
    /\ kind \in Kinds
    /\ no_wait = FALSE
    /\ timeout \in 1 .. MaxTimeout
    /\ scale \in (IF kind = "undeploy" THEN {0} ELSE Scales)
    /\ model_deployments \in DispatchLists
    /\ now = 0 /\ start = 0 /\ elapsed = 0
    /\ affected_deployments_status = <<>> /\ affected_deployments_status2 = <<>>
    /\ result = FALSE /\ result2 = FALSE
    /\ nMutations = 1 /\ nQueries = 0 /\ nEvals = 0 /\ nSleeps = 0
    /\ nQueries2 = 0
    /\ latency = 0
    /\ observed = NoObservation
    /\ shown1 = NothingShown
    /\ differed = FALSE
    /\ f_pc = "off" /\ f_args = <<>> /\ f_ret = <<>>
    /\ SandboxUntouched

\* elapsed = time.time() - start; if elapsed > args.timeout: raise (both runs)
PairCheckDeadline ==
    /\ pc = "loop" /\ pc2 = "loop"
    /\ elapsed' = now - start
    /\ IF DeadlineExceeded(elapsed', timeout)
       THEN /\ Raise("TimedOut")
            /\ pc2' = "done" /\ outcome2' = "TimedOut"
            /\ UNCHANGED latency
       ELSE /\ pc' = "query" /\ pc2' = "query"
            /\ latency' = 0
            /\ UNCHANGED <<outcome, outcome2>>
    /\ UNCHANGED <<args, model_deployments, now, start, affected_deployments_status,
                   result, counters, observed, fvars, sbvars,
                   affected_deployments_status2, result2, nQueries2, shown1, differed>>

\* get_related_model_deployments in the first run; what its listing showed
\* about the affected deployments is kept for the second run.  A failing
\* query fails in both runs.  The two runs have the same timing, and it is the
\* one in which the service answers at once.
PairQueryStatus1 ==
    /\ pc = "query" /\ pc2 = "query"
    /\ nQueries' = nQueries + 1
    /\ now' = now
    /\ latency' = 0
    /\ \/ /\ Raise("QueryFailed")
          /\ pc2' = "done" /\ outcome2' = "QueryFailed"
          /\ nQueries2' = nQueries2 + 1
          /\ UNCHANGED <<affected_deployments_status, observed, shown1>>
       \/ /\ \E actual_deployments_status \in PollSnapshots :
                /\ affected_deployments_status' =
                       related_model_deployments(actual_deployments_status, model_deployments)
                /\ observed' = Observe(actual_deployments_status)
                /\ shown1' = Shown(actual_deployments_status, model_deployments)
          /\ pc' = "callback"
          /\ UNCHANGED <<outcome, pc2, outcome2, nQueries2>>
    /\ UNCHANGED <<args, model_deployments, start, elapsed, result,
                   nMutations, nEvals, nSleeps, fvars, sbvars,
                   affected_deployments_status2, result2, differed>>

\* get_related_model_deployments in the second run, at the same time as in the
\* first: its listing agrees with the first run's on the affected deployments
PairQueryStatus2 ==
    /\ pc = "callback" /\ pc2 = "query"
    /\ nQueries2' = nQueries2 + 1
    /\ \E actual_deployments_status \in PollSnapshots :
          /\ SameBag(shown1.listing,
                     AffectedPart(actual_deployments_status, model_deployments))
          /\ affected_deployments_status2' =
                 related_model_deployments(actual_deployments_status, model_deployments)
          /\ differed' =
                 (shown1.others # Shown(actual_deployments_status, model_deployments).others)
    /\ pc2' = "callback"
    /\ shown1' = NothingShown
    /\ UNCHANGED <<mainvars, fvars, sbvars, outcome2, result2>>

\* result = wait_callback(...); if result: break (each run on its own listing)
PairCallback ==
    /\ pc = "callback" /\ pc2 = "callback"
    /\ nEvals' = nEvals + 1
    /\ result' = wait_callback(kind, affected_deployments_status, scale, model_deployments)
    /\ result2' = wait_callback(kind, affected_deployments_status2, scale, model_deployments)
    /\ IF result'
       THEN pc' = "done" /\ outcome' = "Confirmed"
       ELSE pc' = "sleep" /\ UNCHANGED outcome
    /\ IF result2'
       THEN pc2' = "done" /\ outcome2' = "Confirmed"
       ELSE pc2' = "sleep" /\ UNCHANGED outcome2
    /\ UNCHANGED <<args, model_deployments, now, start, elapsed, affected_deployments_status,
                   nMutations, nQueries, nSleeps, latency, observed, fvars, sbvars,
                   affected_deployments_status2, nQueries2, shown1, differed>>

\* time.sleep(1) in both runs
PairSleep ==
    /\ pc = "sleep" /\ pc2 = "sleep"
    /\ nSleeps' = nSleeps + 1
    /\ now' = now + PollInterval
    /\ pc' = "loop" /\ pc2' = "loop"
    /\ affected_deployments_status' = <<>>
    /\ affected_deployments_status2' = <<>>
    /\ observed' = NoObservation
    /\ differed' = FALSE
    /\ UNCHANGED <<outcome, args, model_deployments, start, elapsed,
                   result, nMutations, nQueries, nEvals, latency, fvars, sbvars,
                   outcome2, result2, nQueries2, shown1>>

NextPair ==
    \/ PairCheckDeadline
    \/ PairQueryStatus1
    \/ PairQueryStatus2
    \/ PairCallback
    \/ PairSleep

SpecPair == InitPair /\ [][NextPair]_vars

\* ------------------------------------------------------------------- claims
LoopPcs == {"loop", "query", "callback", "sleep"}

\* the wait is enabled and its deadline is valid
Waiting == ~no_wait /\ timeout > 0

\* the command has ended and nothing more happens
Ended == pc = "done" /\ ~ENABLED Next

\* C1: with waiting enabled and timeout > 0, the wait is Confirmed in the first
\* iteration whose callback returns true: every earlier callback returned false,
\* and that iteration is the last thing the wait does (as many callbacks as
\* queries, one sleep fewer, nothing after it).
C1_ConfirmedAtFirstTrue ==
    Waiting =>
        /\ pc \in LoopPcs => ~result
        /\ result => outcome = "Confirmed"
        /\ outcome = "Confirmed" =>
               /\ result
               /\ Ended
               /\ nEvals = nQueries
               /\ nSleeps = nQueries - 1

C1_Witness ==
    /\ outcome = "Confirmed"
    /\ nQueries = 2 /\ nEvals = 2 /\ nSleeps = 1

\* C2: a wait whose polls all returned and all evaluated false ends TimedOut:
\* it is never stuck inside the loop, polls only while elapsed <= timeout, never
\* runs past timeout + one poll interval + the latency of its last query, and
\* declares TimedOut at an elapsed time within that bound.
C2_TimedOutWithinOneInterval ==
    /\ (pc = "done" /\ Waiting /\ outcome \notin {"DispatchFailed", "QueryFailed"} /\ ~result)
           => outcome = "TimedOut"
    /\ pc \in {"query", "callback", "sleep"} => elapsed <= timeout
    /\ pc \in LoopPcs =>
           /\ ENABLED Next
           /\ now - start <= timeout + PollInterval + latency
    /\ outcome = "TimedOut" =>
           /\ ~result
           /\ nEvals = nQueries /\ nSleeps = nQueries
           /\ elapsed <= timeout + PollInterval + latency

C2_Witness ==
    /\ outcome = "TimedOut"
    /\ latency = 1
    /\ elapsed = timeout + PollInterval + latency

\* C3: an enabled wait with timeout <= 0 ends InvalidTimeout (once the mutation
\* request has returned) and never queries the status, evaluates the callback
\* or sleeps.
C3_InvalidTimeoutWithoutQuery ==
    /\ (~no_wait /\ timeout <= 0) =>
           /\ nQueries = 0 /\ nEvals = 0 /\ nSleeps = 0
           /\ pc \notin LoopPcs
           /\ (pc = "done" /\ outcome # "DispatchFailed") => outcome = "InvalidTimeout"
    /\ outcome = "InvalidTimeout" =>
           /\ timeout <= 0
           /\ nQueries = 0 /\ nEvals = 0 /\ nSleeps = 0
           /\ Ended

C3_Witness ==
    /\ outcome = "InvalidTimeout"
    /\ timeout = 0
    /\ model_deployments # <<>>

\* C4: when InvalidTimeout is raised no request of any kind has been sent to the
\* service: neither the mutation request nor a status query.
C4_InvalidTimeoutBeforeAnyRequest ==
    outcome = "InvalidTimeout" => nMutations = 0 /\ nQueries = 0

\* C5: a failed mutation request ends the command at once: the wait never
\* starts, so no status query, no callback and no sleep follow it.
C5_FailedDispatchNeverWaits ==
    outcome = "DispatchFailed" =>
        /\ Ended
        /\ nMutations = 1
        /\ nQueries = 0 /\ nEvals = 0 /\ nSleeps = 0

C5_Witness ==
    /\ outcome = "DispatchFailed"
    /\ kind = "undeploy"
    /\ Waiting

\* C6: deploy or scale, affected deployments with distinct identities, listings
\* with unique identities: a poll confirms if and only if its listing shows
\* every affected identity with ready_replicas = scale and a responding API; a
\* poll that goes on to sleep did not show that.
C6_ScaleConfirmedAtFirstAllReady ==
    (kind \in {"deploy", "scale"} /\ UniqueIdentities(model_deployments)) =>
        /\ pc = "sleep" => ~observed.all_ready
        /\ outcome = "Confirmed" => observed.all_ready /\ nEvals = nQueries

C6_Witness ==
    /\ kind = "deploy"
    /\ Len(model_deployments) = 2
    /\ UniqueIdentities(model_deployments)
    /\ outcome = "Confirmed"
    /\ nQueries = 3

\* C7: undeploy: a poll confirms if and only if its listing shows none of the
\* affected identities; a poll that still lists one of them goes on to sleep.
C7_UndeployConfirmedAtFirstNoneListed ==
    kind = "undeploy" =>
        /\ pc = "sleep" => ~observed.none_listed
        /\ outcome = "Confirmed" => observed.none_listed /\ nEvals = nQueries

C7_Witness ==
    /\ kind = "undeploy"
    /\ Len(model_deployments) = 2
    /\ UniqueIdentities(model_deployments)
    /\ outcome = "Confirmed"
    /\ nQueries = 2

\* C8: TimedOut is declared only when elapsed > timeout; an iteration that
\* starts with elapsed <= timeout (elapsed = timeout included) is not timed out
\* and performs its status query.  Checked on scale commands with every
\* deadline from 1 to ScenarioDeadline.
C8_DeadlineTestIsStrict ==
    /\ [](outcome = "TimedOut" => elapsed > timeout /\ elapsed = now - start)
    /\ [][(pc = "loop" /\ now - start <= timeout)
              => (pc' = "query" /\ outcome' = "running")]_vars
    /\ [][pc = "query" => nQueries' = nQueries + 1]_vars

C8_Witness ==
    /\ outcome = "TimedOut"
    /\ kind = "scale"
    /\ timeout = ScenarioDeadline
    /\ elapsed = timeout + PollInterval
    /\ nQueries = timeout + 1

\* C9: get_related_model_deployments returns exactly the descriptors of the
\* listing whose identity is the identity of an affected deployment: nothing
\* else, none of them left out, each as often as it is listed.
C9_FilterIsExact ==
    f_pc = "returned" =>
        LET S == f_args.actual
            A == f_args.affected
            R == f_ret
            InA(d) == \E i \in DOMAIN A : id_and_version(d) = id_and_version(A[i])
        IN  /\ \A k \in DOMAIN R : InA(R[k]) /\ \E j \in DOMAIN S : S[j] = R[k]
            /\ \A j \in DOMAIN S : InA(S[j]) => \E k \in DOMAIN R : R[k] = S[j]
            /\ Len(R) = Cardinality({j \in DOMAIN S : InA(S[j])})

C9_Witness ==
    /\ f_pc = "returned"
    /\ DOMAIN f_args = {"actual", "affected"}
    /\ Len(f_args.actual) = 2
    /\ Len(f_args.affected) = 1
    /\ Len(f_ret) = 1

\* C10: check_all_scaled is true if and only if exactly expected_count of the
\* descriptors have ready_replicas = expected_scale and a responding API.
C10_ScaledIffExactlyK ==
    f_pc = "returned" =>
        LET ds == f_args.deployments_status
            qualifying == {i \in DOMAIN ds :
                               /\ ds[i].ready_replicas = f_args.expected_scale
                               /\ ds[i].model_api_ok = TRUE}
        IN  f_ret <=> Cardinality(qualifying) = f_args.expected_count

C10_Witness ==
    /\ f_pc = "returned"
    /\ DOMAIN f_args = {"deployments_status", "expected_scale", "expected_count"}
    /\ f_ret = FALSE
    /\ f_args.expected_count = 1
    /\ Len(f_args.deployments_status) = 1
    /\ f_args.deployments_status[1].ready_replicas = f_args.expected_scale
    /\ ~f_args.deployments_status[1].model_api_ok

\* C11 (as claimed): with no_wait set, a command whose mutation request
\* succeeded performs exactly one status query and one callback, then ends
\* without sleeping.
C11_NoWaitOneStatusCheck ==
    (no_wait /\ pc = "done" /\ outcome # "DispatchFailed") =>
        /\ nQueries = 1 /\ nEvals = 1
        /\ nSleeps = 0

\* C11 (amended): with no_wait set nothing is substituted and nothing is
\* checked: the command performs no status query, no callback and no sleep, and
\* returns right after a successful mutation request.
C11_NoWaitNoStatusCheck ==
    no_wait =>
        /\ nQueries = 0 /\ nEvals = 0 /\ nSleeps = 0
        /\ pc \notin LoopPcs
        /\ (pc = "done" /\ outcome # "DispatchFailed") => (outcome = "NotWaited" /\ Ended)

C11_Witness ==
    /\ no_wait
    /\ outcome = "NotWaited"
    /\ nMutations = 1
    /\ timeout > 0
    /\ model_deployments # <<>>

\* The four outcomes the caller is said to see; a return without waiting is a
\* plain successful return, which the caller cannot tell from Confirmed.
FourOutcomes == {"Confirmed", "TimedOut", "DispatchFailed", "InvalidTimeout"}

CallerOutcome == IF outcome = "NotWaited" THEN "Confirmed" ELSE outcome

\* C12 (as claimed): every finished operation ended in one of the four outcomes
\* Confirmed, TimedOut, DispatchFailed, InvalidTimeout, a failing status query
\* inside the loop included.
C12_OnlyFourOutcomes ==
    pc = "done" => CallerOutcome \in FourOutcomes

\* C12 (amended): an operation is finished exactly when it has an outcome; the
\* outcome is one of the four or a propagated status-query failure, which is a
\* fifth exit outside the four; each outcome is reported only for its own
\* cause, so no failure is swallowed into another outcome.
C12_EveryExitHasItsCause ==
    /\ (pc = "done") <=> (outcome # "running")
    /\ pc = "done" => CallerOutcome \in FourOutcomes \cup {"QueryFailed"}
    /\ outcome = "Confirmed" => (result /\ ~no_wait /\ nEvals = nQueries)
    /\ outcome = "NotWaited" => (no_wait /\ nMutations = 1)
    /\ outcome = "TimedOut" => (elapsed > timeout /\ ~result /\ nEvals = nQueries)
    /\ outcome = "InvalidTimeout" => (timeout <= 0 /\ ~no_wait)
    /\ outcome = "DispatchFailed" => (nQueries = 0 /\ model_deployments = <<>>)
    /\ outcome = "QueryFailed" => (nEvals = nQueries - 1 /\ ~no_wait /\ timeout > 0)

C12_Witness ==
    /\ pc = "done"
    /\ outcome = "QueryFailed"
    /\ nQueries = 2
    /\ nSleeps = 1

\* C13: within one wait every iteration runs deadline check, status query with
\* its filter, callback, sleep, in this order; an iteration issues exactly one
\* status query, a query is issued only after the previous one was evaluated,
\* and the callback reads the listing of the query of its own iteration.
C13_IterationOrder ==
    /\ [](pc \in {"loop", "query"} => (nQueries = nEvals /\ nEvals = nSleeps))
    /\ [](pc = "callback" => (nQueries = nEvals + 1 /\ nEvals = nSleeps))
    /\ [](pc = "sleep" => (nQueries = nEvals /\ nEvals = nSleeps + 1))
    /\ [](pc = "callback" =>
             (observed.none_listed <=> affected_deployments_status = <<>>))
    /\ [][/\ pc = "loop" => pc' \in {"query", "done"}
          /\ pc = "query" => pc' \in {"callback", "done"}
          /\ pc = "callback" => pc' \in {"sleep", "done"}
          /\ pc = "sleep" => pc' = "loop"]_vars
    /\ [][/\ nQueries' # nQueries => (pc = "query" /\ nQueries' = nQueries + 1)
          /\ nEvals' # nEvals => (pc = "callback" /\ nEvals' = nEvals + 1)
          /\ nSleeps' # nSleeps => (pc = "sleep" /\ nSleeps' = nSleeps + 1)]_vars
    /\ [][(pc = "query" /\ pc' = "callback") =>
             \E actual \in PollSnapshots :
                 /\ affected_deployments_status' =
                        related_model_deployments(actual, model_deployments)
                 /\ observed' = Observe(actual)']_vars
    /\ [][pc = "callback" =>
             result' = wait_callback(kind, affected_deployments_status, scale,
                                     model_deployments)]_vars

C13_Witness ==
    /\ pc = "callback"
    /\ nQueries = 3
    /\ nEvals = 2
    /\ nSleeps = 2
    /\ affected_deployments_status # <<>>

\* C14: the affected deployments are fixed when the mutation request returns:
\* from then on no step of the wait (status query, filter, callback, sleep,
\* deadline test) adds an identity to them or removes one, and before the
\* request returns there are none.
C14_AffectedSetFixed ==
    /\ [](pc = "start" => model_deployments = <<>>)
    /\ [][pc # "start" => model_deployments' = model_deployments]_vars
    /\ [][pc = "start" =>
             (model_deployments' \in DispatchLists
              /\ (outcome' = "DispatchFailed" => model_deployments' = <<>>))]_vars

\* a second poll has listed fewer deployments than the request affected
C14_Witness ==
    /\ pc = "callback"
    /\ nQueries = 2
    /\ Len(model_deployments) >= 2
    /\ Len(affected_deployments_status) < Len(model_deployments)

\* C15: an operation sends exactly one mutation request over its lifetime: none
\* before the command body runs, one from then on, whether the request failed,
\* the wait polled any number of times, or the wait timed out.
C15_OneMutationRequest ==
    /\ nMutations = (IF pc = "start" THEN 0 ELSE 1)
    /\ outcome \in {"DispatchFailed", "TimedOut", "Confirmed", "QueryFailed",
                    "InvalidTimeout", "NotWaited"} => nMutations = 1

C15_Witness ==
    /\ outcome = "TimedOut"
    /\ nQueries >= 2
    /\ nMutations = 1

\* C19: a status query can fail, and a failing status query ends the wait in
\* that same iteration: its listing is not evaluated, no sleep and no further
\* query follow, and the wait is neither Confirmed nor TimedOut; a wait that
\* goes on, or ends Confirmed or TimedOut, has evaluated every query it issued
\* (no poll was skipped).
C19_QueryFailureAborts ==
    /\ pc = "query" => ENABLED (QueryStatus /\ outcome' = "QueryFailed")
    /\ outcome = "QueryFailed" =>
           /\ Ended
           /\ nEvals = nQueries - 1
           /\ nSleeps = nQueries - 1
           /\ ~result
    /\ (pc \in {"sleep", "loop"} \/ outcome \in {"Confirmed", "TimedOut"}) =>
           nEvals = nQueries

\* the third status query of a wait failed
C19_Witness ==
    /\ outcome = "QueryFailed"
    /\ nQueries = 3
    /\ nEvals = 2
    /\ nSleeps = 2

\* C20: the deadline is tested only at the top of an iteration.  TimedOut is
\* declared only by the deadline test, without a status query; an iteration
\* past its deadline test never times out, so a satisfied callback confirms
\* even when the query returned after the deadline; an iteration that starts
\* after the deadline times out without querying.
C20_DeadlineOnlyAtTop ==
    /\ [][outcome' = "TimedOut" =>
             (pc = "loop" /\ nQueries' = nQueries /\ nEvals' = nEvals /\ now' = now)]_vars
    /\ [][(pc \in {"query", "callback", "sleep"}) => (outcome' # "TimedOut")]_vars
    /\ [][(pc = "callback"
           /\ wait_callback(kind, affected_deployments_status, scale, model_deployments))
             => outcome' = "Confirmed"]_vars
    /\ [][(pc = "loop" /\ now - start > timeout) =>
             (outcome' = "TimedOut" /\ nQueries' = nQueries)]_vars

\* confirmed by a poll that started in time and returned after the deadline
C20_Witness ==
    /\ outcome = "Confirmed"
    /\ elapsed <= timeout
    /\ now - start > timeout
    /\ latency > 0

\* C16: a wait that has entered its loop ends, as Confirmed, TimedOut or with
\* the failure of a status query, when every request returns and every sleep
\* ends; and a wait with deadline timeout issues at most
\* timeout / PollInterval + 1 status queries.
C16_WaitTerminates ==
    /\ [](nQueries <= (IF Waiting THEN timeout \div PollInterval + 1 ELSE 0))
    /\ [][(pc \in LoopPcs) =>
             (pc' \in LoopPcs \/ outcome' \in {"Confirmed", "TimedOut", "QueryFailed"})]_vars
    /\ <>(pc = "done")

\* a wait with the largest deadline has used all its status queries
C16_Witness ==
    /\ outcome = "TimedOut"
    /\ timeout = MaxTimeout
    /\ nQueries = MaxTimeout \div PollInterval + 1

\* C17 (as claimed): cancellation is tested at the top of an iteration, so a
\* wait ends by cancellation only from the deadline test at the iteration
\* boundary.
C17_CancelledOnlyAtIterationTop ==
    [][outcome' = "Interrupted" => pc = "loop"]_vars

\* C17 (amended): the loop has no cancellation test.  An interrupt is taken at
\* any point of an iteration, the status query and the sleep included; it ends
\* the wait at that point, not at the next iteration boundary; the interrupted
\* query or sleep does not complete, and no status query, callback or sleep
\* follows.
C17_InterruptEndsWaitAtOnce ==
    /\ []((pc \in LoopPcs) => ENABLED Interrupt)
    /\ [](outcome = "Interrupted" => (pc = "done" /\ ~ENABLED NextInterrupt))
    /\ [][outcome' = "Interrupted" =>
             /\ pc \in LoopPcs
             /\ pc' = "done"
             /\ UNCHANGED <<counters, now, elapsed, result, model_deployments>>]_vars
    /\ [][outcome = "Interrupted" => UNCHANGED counters]_vars

\* the second sleep of a wait was interrupted
C17_Witness ==
    /\ outcome = "Interrupted"
    /\ nQueries = 2
    /\ nEvals = 2
    /\ nSleeps = 1

\* C18: a sandbox call that finds legion-activate.sh and has no force_recreate
\* leaves the file as it is and prints only the 'already existed' line; any
\* other call writes the script rendered for its image, sets the owner's
\* execute bit on it (mode 0o744 for a file it created) and prints the
\* 'created' lines.  So after at least one call the file exists and is the
\* owner's to execute or was left alone, and calls without force_recreate
\* write it at most once.
C18_SandboxGuardedByExistence ==
    /\ [](nCalls >= 1 => activate_file.exists)
    /\ [](all_unforced =>
             /\ nWrites <= 1
             /\ nWrites = 1 =>
                    (activate_file.mode = BitOr(NewFileMode, S_IEXEC)
                     /\ \E image \in Images : activate_file.content = render_template(image)))
    /\ [][nCalls' = nCalls + 1 =>
             IF activate_file.exists /\ ~f_args'.force_recreate
             THEN /\ activate_file' = activate_file
                  /\ nWrites' = nWrites
                  /\ stdout' = <<AlreadyExisted>>
             ELSE /\ activate_file'.exists
                  /\ activate_file'.content = render_template(f_args'.image)
                  /\ (activate_file'.mode \div S_IEXEC) % 2 = 1
                  /\ activate_file'.mode >= activate_file.mode
                  /\ nWrites' = nWrites + 1
                  /\ stdout' = <<Created, ToActivate>>]_vars

\* the file was created by the first of several calls without force_recreate
\* and the later ones left it alone
C18_Witness ==
    /\ nCalls = 3
    /\ all_unforced
    /\ nWrites = 1
    /\ stdout = <<AlreadyExisted>>
    /\ activate_file.mode = 484

\* C24: with no_wait set wait_operation_finish validates nothing and touches
\* nothing: whatever the timeout, a non-positive one included, the command
\* never ends InvalidTimeout (nor TimedOut, nor by a failed query); after a
\* successful mutation request its next step is the successful return, which
\* reads no clock and no listing and leaves every local of the wait as it was.
C24_NoWaitValidatesNothing ==
    /\ [](no_wait => outcome \in {"running", "NotWaited", "DispatchFailed"})
    /\ [](no_wait =>
             /\ nQueries = 0 /\ nEvals = 0
             /\ start = 0 /\ elapsed = 0
             /\ affected_deployments_status = <<>> /\ ~result)
    /\ [][(no_wait /\ pc = "wait") =>
             /\ pc' = "done"
             /\ outcome' = "NotWaited"
             /\ UNCHANGED <<now, locals, counters, model_deployments>>]_vars
    /\ [][(no_wait /\ pc = "done") => UNCHANGED vars]_vars

\* returned at once although the timeout was not positive
C24_Witness ==
    /\ no_wait
    /\ timeout <= 0
    /\ outcome = "NotWaited"
    /\ pc = "done"
    /\ nQueries = 0

\* the mutation request succeeded and reported no affected deployment
NothingAffected ==
    /\ pc # "start"
    /\ outcome # "DispatchFailed"
    /\ model_deployments = <<>>

\* C22: when a deploy, scale or undeploy that waits with a positive timeout is
\* told that nothing was affected, its filtered listing is empty whatever the
\* service lists, its callback is satisfied by it, and the command is Confirmed
\* by its first poll: one status query, one callback, no sleep, no timeout
\* (unless that one query itself fails).
C22_NothingAffectedConfirmedAtOnce ==
    (Waiting /\ NothingAffected) =>
        /\ pc \notin {"sleep"}
        /\ nSleeps = 0
        /\ outcome \in {"running", "Confirmed", "QueryFailed"}
        /\ pc = "loop" => nQueries = 0
        /\ pc = "query" =>
               \A actual \in PollSnapshots :
                   /\ related_model_deployments(actual, model_deployments) = <<>>
                   /\ wait_callback(kind, <<>>, scale, model_deployments)
        /\ pc = "callback" =>
               /\ affected_deployments_status = <<>>
               /\ nQueries = 1
               /\ wait_callback(kind, affected_deployments_status, scale, model_deployments)
        /\ outcome = "Confirmed" => (nQueries = 1 /\ nEvals = 1 /\ elapsed = 0)
        /\ outcome = "QueryFailed" => (nQueries = 1 /\ nEvals = 0)

\* a scale to the largest scale, confirmed at once because nothing was affected
C22_Witness ==
    /\ kind = "scale"
    /\ scale = MaxScale
    /\ NothingAffected
    /\ outcome = "Confirmed"
    /\ nQueries = 1
    /\ nSleeps = 0

\* a deploy or scale that waits, whose mutation request returned a list that
\* names some composite identity more than once
RepeatedIdentity ==
    /\ kind \in {"deploy", "scale"}
    /\ Waiting
    /\ ~UniqueIdentities(model_deployments)

\* the entries of a filtered listing that check_all_scaled counts
Qualifying(deployments_status) ==
    SelectSeq(deployments_status,
              LAMBDA deployment : deployment.ready_replicas = scale /\ deployment.model_api_ok)

\* C23: deploy and scale expect as many scaled deployments as the list of the
\* mutation request has entries.  When that list repeats an identity and the
\* listings of the service do not, every filtered listing has fewer qualifying
\* entries than expected, so no callback is satisfied, the wait is never
\* Confirmed, it can always go on until its deadline, and it ends only as
\* TimedOut (or by a failing status query).
C23_RepeatedIdentityNeverConfirmed ==
    RepeatedIdentity =>
        /\ ~result
        /\ outcome \in {"running", "TimedOut", "QueryFailed"}
        /\ pc = "callback" =>
               /\ UniqueIdentities(affected_deployments_status)
               /\ Len(Qualifying(affected_deployments_status)) < Len(model_deployments)
               /\ ~wait_callback(kind, affected_deployments_status, scale, model_deployments)
        /\ pc = "query" =>
               \A actual \in PollSnapshots :
                   ~wait_callback(kind, related_model_deployments(actual, model_deployments),
                                  scale, model_deployments)
        /\ (pc \in LoopPcs) => ENABLED Next
        /\ (pc = "done" /\ nQueries = nEvals) => outcome = "TimedOut"

\* a deploy whose list named one identity twice polled until its deadline
C23_Witness ==
    /\ RepeatedIdentity
    /\ kind = "deploy"
    /\ outcome = "TimedOut"
    /\ nQueries >= 2
    /\ Len(model_deployments) = 2

\* the first run has queried in this iteration and the second is about to
BetweenQueries == pc = "callback" /\ pc2 = "query"

\* C21: two runs of a wait with the same affected list, callback, deadline
\* and timing, whose listings at every poll agree on the descriptors with
\* affected identities and are free otherwise, stay together: they are always
\* at the same point, have made the same number of polls with the same callback
\* results, and end with the same outcome.
C21_OnlyAffectedDescriptorsMatter ==
    /\ pc = pc2 \/ BetweenQueries
    /\ outcome = outcome2
    /\ nQueries = (IF BetweenQueries THEN nQueries2 + 1 ELSE nQueries2)
    /\ result = result2
    /\ (pc = "callback" /\ pc2 = "callback") =>
           wait_callback(kind, affected_deployments_status, scale, model_deployments)
             = wait_callback(kind, affected_deployments_status2, scale, model_deployments)
    /\ pc = "done" => (pc2 = "done" /\ ~ENABLED NextPair)

\* both runs confirmed at their second poll although one of them was shown
\* deployments that are not affected and the other was not
C21_Witness ==
    /\ differed
    /\ outcome = "Confirmed" /\ outcome2 = "Confirmed"
    /\ nQueries = 2 /\ nQueries2 = 2
    /\ kind = "scale"
    /\ Len(model_deployments) = 1

====
